---- MODULE Spec2Model ----
(***************************************************************************)
(* Model of the daily publish pipeline of DeepDiveDevotions (automate.py)  *)
(* and of the collaborators it calls: the schedule spreadsheet, the Drive  *)
(* folder, the encoder, the storage bucket and the RSS document.           *)
(*                                                                         *)
(* Text is modelled as a sequence of one-character strings so that         *)
(* strip(), lower(), strptime() and the A1 column arithmetic are computed  *)
(* the way the code computes them.                                         *)
(***************************************************************************)
EXTENDS Integers, Sequences, FiniteSets, TLC

\* ------------------------------------------------------------------------
\* Text helpers (Python str methods used by automate.py)
\* ------------------------------------------------------------------------
Digits == <<"0","1","2","3","4","5","6","7","8","9">>
UpperLetters == <<"A","B","C","D","E","F","G","H","I","J","K","L","M",
                  "N","O","P","Q","R","S","T","U","V","W","X","Y","Z">>
LowerLetters == <<"a","b","c","d","e","f","g","h","i","j","k","l","m",
                  "n","o","p","q","r","s","t","u","v","w","x","y","z">>

IsSpace(c) == c \in {" ", "\t", "\n"}
IsDigit(c) == \E i \in 1..10 : Digits[i] = c
DigitVal(c) == (CHOOSE i \in 1..10 : Digits[i] = c) - 1

RECURSIVE lstrip(_)
lstrip(s) == IF s # <<>> /\ IsSpace(Head(s)) THEN lstrip(Tail(s)) ELSE s
RECURSIVE rstrip(_)
rstrip(s) ==
  IF s # <<>> /\ IsSpace(s[Len(s)]) THEN rstrip(SubSeq(s, 1, Len(s) - 1)) ELSE s
\* str.strip()
strip(s) == rstrip(lstrip(s))

LowerChar(c) ==
  IF \E i \in 1..26 : UpperLetters[i] = c
  THEN LowerLetters[CHOOSE i \in 1..26 : UpperLetters[i] = c]
  ELSE c
\* str.lower()
lower(s) == [i \in 1..Len(s) |-> LowerChar(s[i])]

RECURSIVE int(_)
\* int() of a digit string (a leading blank, as strptime's %d admits, is skipped)
int(s) ==
  IF s = <<>> THEN 0
  ELSE IF IsDigit(s[Len(s)])
       THEN 10 * int(SubSeq(s, 1, Len(s) - 1)) + DigitVal(s[Len(s)])
       ELSE int(SubSeq(s, 1, Len(s) - 1))

RECURSIVE str(_)
\* str() of a non-negative integer
str(n) == IF n < 10 THEN <<Digits[n + 1]>> ELSE str(n \div 10) \o <<Digits[(n % 10) + 1]>>

\* zero-padded decimal of the given width ("%04d", "%02d")
RECURSIVE zfill(_, _)
zfill(s, width) == IF Len(s) >= width THEN s ELSE zfill(<<"0">> \o s, width)

\* ------------------------------------------------------------------------
\* Dates
\* ------------------------------------------------------------------------
ValueError == [ok |-> FALSE, y |-> 0, m |-> 0, d |-> 0]
Date(y, m, d) == [ok |-> TRUE, y |-> y, m |-> m, d |-> d]

IsLeap(y) == (y % 4 = 0 /\ y % 100 # 0) \/ y % 400 = 0
DaysInMonth(y, m) ==
  IF m = 2 THEN (IF IsLeap(y) THEN 29 ELSE 28)
  ELSE IF m \in {4, 6, 9, 11} THEN 30 ELSE 31

\* the %m directive: 1[0-2] | 0[1-9] | [1-9]
MonthField(f) ==
  \/ Len(f) = 2 /\ f[1] = "1" /\ f[2] \in {"0", "1", "2"}
  \/ Len(f) = 2 /\ f[1] = "0" /\ IsDigit(f[2]) /\ f[2] # "0"
  \/ Len(f) = 1 /\ IsDigit(f[1]) /\ f[1] # "0"
\* the %d directive: 3[01] | [12]\d | 0[1-9] | [1-9] | " "[1-9]
DayField(f) ==
  \/ Len(f) = 2 /\ f[1] = "3" /\ f[2] \in {"0", "1"}
  \/ Len(f) = 2 /\ f[1] \in {"1", "2"} /\ IsDigit(f[2])
  \/ Len(f) = 2 /\ f[1] \in {"0", " "} /\ IsDigit(f[2]) /\ f[2] # "0"
  \/ Len(f) = 1 /\ IsDigit(f[1]) /\ f[1] # "0"
\* the %Y directive: exactly four digits
YearField(f) == Len(f) = 4 /\ \A i \in 1..4 : IsDigit(f[i])

\* datetime.strptime(t, "%Y-%m-%d").date()
strptime_ymd(t) ==
  LET dashes == {i \in 1..Len(t) : t[i] = "-"} IN
  IF Cardinality(dashes) # 2 THEN ValueError
  ELSE
    LET d1 == CHOOSE i \in dashes : \A j \in dashes : i <= j
        d2 == CHOOSE i \in dashes : \A j \in dashes : j <= i
        Y  == SubSeq(t, 1, d1 - 1)
        M  == SubSeq(t, d1 + 1, d2 - 1)
        D  == SubSeq(t, d2 + 1, Len(t))
    IN IF YearField(Y) /\ MonthField(M) /\ DayField(D)
          /\ int(Y) >= 1 /\ int(D) <= DaysInMonth(int(Y), int(M))
       THEN Date(int(Y), int(M), int(D))
       ELSE ValueError

parse_publish_date(s) == strptime_ymd(strip(s))

\* date.isoformat()
isoformat(dt) ==
  zfill(str(dt.y), 4) \o <<"-">> \o zfill(str(dt.m), 2) \o <<"-">> \o zfill(str(dt.d), 2)

\* ------------------------------------------------------------------------
\* A1 column letters
\* ------------------------------------------------------------------------
RECURSIVE col_to_a1_loop(_, _)
col_to_a1_loop(n, letters) ==
  LET q    == n \div 26
      rem  == n % 26
      next == <<UpperLetters[rem + 1]>> \o letters
  IN IF q = 0 THEN next ELSE col_to_a1_loop(q - 1, next)
\* variant: the index is taken as 1-based
col_to_a1_one_based(col_index_0_based) == col_to_a1_loop(col_index_0_based + 1, <<>>)

col_to_a1(col_index_0_based) == col_to_a1_loop(col_index_0_based, <<>>)

\* ------------------------------------------------------------------------
\* Module configuration (environment of the job)
\* ------------------------------------------------------------------------
BUCKET_EPISODES_PREFIX == <<"e","p","i","s","o","d","e","s">>
GuidNamespace == <<"d","d","d","e","v","o","t","i","o","n">>

\* os.getenv: None when the variable is not set
Unset == <<"None">>
getenv(environment, name, default) ==
  IF environment[name] = Unset THEN default ELSE environment[name]
\* truth value of a str-or-None
falsy(v) == v = Unset \/ v = <<>>
\* a or b
either(a, b) == IF falsy(a) THEN b ELSE a

DefaultBucket == <<"d","e","e","p","-","d","i","v","e","-","p","o","d","c","a","s","t","-","a","s","s","e","t","s">>
\* EPISODES_FOLDER_ID, SPREADSHEET_ID and BUCKET_NAME as the module computes them
module_config(environment) ==
  [EPISODES_FOLDER_ID |-> either(getenv(environment, "DAILY_FOLDER_ID", Unset),
                                 getenv(environment, "EPISODES_FOLDER_ID", Unset)),
   SPREADSHEET_ID |-> either(getenv(environment, "SHEET_ID", Unset),
                             getenv(environment, "SPREADSHEET_ID", Unset)),
   BUCKET_NAME |-> either(getenv(environment, "RSS_BUCKET", Unset),
                          getenv(environment, "BUCKET_NAME", DefaultBucket))]

\* the date the job runs for (DATE_OVERRIDE or date.today())
TargetDate == Date(2024, 3, 1)

\* ------------------------------------------------------------------------
\* Spreadsheet service: the grid and the two calls the job makes
\* ------------------------------------------------------------------------
RECURSIVE TrimTrailing(_)
\* values.get omits trailing empty cells of a row and trailing empty rows
TrimTrailing(s) ==
  IF s # <<>> /\ s[Len(s)] = <<>> THEN TrimTrailing(SubSeq(s, 1, Len(s) - 1)) ELSE s
values_get(grid) == TrimTrailing([r \in 1..Len(grid) |-> TrimTrailing(grid[r])])

RECURSIVE a1_to_col(_)
\* the service's reading of a column name: A -> 0, Z -> 25, AA -> 26
a1_to_col(letters) ==
  LET last == CHOOSE i \in 1..26 : UpperLetters[i] = letters[Len(letters)] IN
  IF Len(letters) = 1 THEN last - 1
  ELSE (a1_to_col(SubSeq(letters, 1, Len(letters) - 1)) + 1) * 26 + last - 1

\* values.update of the one-cell range <letters><row> with [[value]]
values_update(grid, letters, row_number, value) ==
  LET c == a1_to_col(letters) + 1 IN
  [r \in 1..Len(grid) |->
     IF r = row_number
     THEN [k \in 1..(IF c > Len(grid[r]) THEN c ELSE Len(grid[r])) |->
             IF k = c THEN value ELSE IF k <= Len(grid[r]) THEN grid[r][k] ELSE <<>>]
     ELSE grid[r]]

\* ------------------------------------------------------------------------
\* Schema resolution
\* ------------------------------------------------------------------------
KeyError == <<"KeyError">>

PublishCandidates == <<<<"P","u","b","l","i","s","h"," ","D","a","t","e">>, <<"P","u","b","l","i","s","h","D","a","t","e">>, <<"p","u","b","l","i","s","h","_","d","a","t","e">>>>
TitleCandidates == <<<<"T","i","t","l","e">>, <<"t","i","t","l","e">>>>
DescCandidates == <<<<"D","e","s","c","r","i","p","t","i","o","n">>, <<"d","e","s","c","r","i","p","t","i","o","n">>>>
FileCandidates == <<<<"F","i","l","e"," ","N","a","m","e">>, <<"F","i","l","e","N","a","m","e">>, <<"F","i","l","e","n","a","m","e">>, <<"f","i","l","e","_","n","a","m","e">>>>
ProcessedCandidates == <<<<"P","r","o","c","e","s","s","e","d">>, <<"p","r","o","c","e","s","s","e","d">>, <<"S","t","a","t","u","s">>, <<"s","t","a","t","u","s">>>>
ImageCandidates ==
  <<<<"I","m","a","g","e","1","6","x","9","F","i","l","e","I","d">>, <<"I","m","a","g","e","1","6","x","9","F","i","l","e","I","D">>, <<"I","m","a","g","e","1","6","x","9","F","i","l","e","I","d","F","i","e","l","d">>,
    <<"I","m","a","g","e","1","6","x","9","F","i","l","e","I","d","F","i","l","e","d">>, <<"I","m","a","g","e","1","6","x","9","F","i","l","e","I","d","F","i","e","l","d","I","d">>, <<"I","m","a","g","e","1","6","x","9","F","i","l","e","I","d","F","i","e","l","d","I","D">>>>

\* col_index = {h.strip(): i for i, h in enumerate(headers)}: a later
\* column of the same stripped name replaces the earlier one
build_col_index(headers) ==
  LET names == {strip(headers[i]) : i \in 1..Len(headers)} IN
  [h \in names |->
     (CHOOSE i \in 1..Len(headers) :
        /\ strip(headers[i]) = h
        /\ \A j \in 1..Len(headers) : strip(headers[j]) = h => j <= i) - 1]

\* variant: the candidates are tried from the last to the first
pick_existing_header_reversed(col_index, candidates) ==
  IF \E k \in 1..Len(candidates) : candidates[k] \in DOMAIN col_index
  THEN candidates[CHOOSE k \in 1..Len(candidates) :
                    /\ candidates[k] \in DOMAIN col_index
                    /\ \A j \in (k + 1)..Len(candidates) : candidates[j] \notin DOMAIN col_index]
  ELSE KeyError

pick_existing_header(col_index, candidates) ==
  IF \E k \in 1..Len(candidates) : candidates[k] \in DOMAIN col_index
  THEN candidates[CHOOSE k \in 1..Len(candidates) :
                    /\ candidates[k] \in DOMAIN col_index
                    /\ \A j \in 1..(k - 1) : candidates[j] \notin DOMAIN col_index]
  ELSE KeyError

Roles == {"publish", "title", "desc", "file", "processed", "image"}
Candidates ==
  [publish |-> PublishCandidates, title |-> TitleCandidates, desc |-> DescCandidates,
   file |-> FileCandidates, processed |-> ProcessedCandidates, image |-> ImageCandidates]

\* COL_PUBLISH .. COL_IMAGE_16x9 of main()
resolve_columns(col_index) ==
  [role \in Roles |-> pick_existing_header(col_index, Candidates[role])]

\* ------------------------------------------------------------------------
\* Row selection
\* ------------------------------------------------------------------------
NoRow == -1
TruthyProcessed ==
  {<<"y","e","s">>, <<"y">>, <<"t","r","u","e">>, <<"1">>, <<"p","r","o","c","e","s","s","e","d">>, <<"d","o","n","e">>}

\* row = values[r] + [""] * (len(headers) - len(values[r]))
pad_row(row, width) ==
  [k \in 1..(IF Len(row) >= width THEN Len(row) ELSE width) |->
     IF k <= Len(row) THEN row[k] ELSE <<>>]

\* variant: the processed cell is not consulted
row_matches_ignoring_processed(values, idx, r, today) ==
  LET row == pad_row(values[r + 1], Len(values[1]))
      publish_raw == strip(row[idx.publish + 1])
      pub == parse_publish_date(publish_raw)
  IN /\ publish_raw # <<>>
     /\ pub.ok
     /\ pub = today

\* variant: the processed cell is compared without .lower()
row_matches_case_sensitive(values, idx, r, today) ==
  LET row == pad_row(values[r + 1], Len(values[1]))
      publish_raw == strip(row[idx.publish + 1])
      pub == parse_publish_date(publish_raw)
      processed_val == strip(row[idx.processed + 1])
      is_processed == processed_val \in TruthyProcessed
  IN /\ publish_raw # <<>>
     /\ pub.ok
     /\ pub = today
     /\ ~is_processed

\* the test of one row in the scan loop; r is the 0-based index into values
row_matches(values, idx, r, today) ==
  LET row == pad_row(values[r + 1], Len(values[1]))
      publish_raw == strip(row[idx.publish + 1])
      pub == parse_publish_date(publish_raw)
      processed_val == lower(strip(row[idx.processed + 1]))
      is_processed == processed_val \in TruthyProcessed
  IN /\ publish_raw # <<>>
     /\ pub.ok
     /\ pub = today
     /\ ~is_processed

\* variant: a date that does not parse ends the scan (break for continue)
find_target_row_stop_at_bad_date(values, idx, today) ==
  LET bad == {r \in 1..(Len(values) - 1) :
                LET cell == strip(pad_row(values[r + 1], Len(values[1]))[idx.publish + 1])
                IN cell # <<>> /\ ~parse_publish_date(cell).ok}
      matching == {r \in 1..(Len(values) - 1) :
                     /\ row_matches(values, idx, r, today)
                     /\ \A b \in bad : r < b}
  IN IF matching = {} THEN NoRow
     ELSE CHOOSE r \in matching : \A q \in matching : r <= q

\* variant: the loop lacks its break, so the last matching row wins
find_target_row_no_break(values, idx, today) ==
  LET matching == {r \in 1..(Len(values) - 1) : row_matches(values, idx, r, today)} IN
  IF matching = {} THEN NoRow
  ELSE CHOOSE r \in matching : \A q \in matching : q <= r

\* the scan loop: the first matching r in range(1, len(values)), else None
find_target_row(values, idx, today) ==
  LET matching == {r \in 1..(Len(values) - 1) : row_matches(values, idx, r, today)} IN
  IF matching = {} THEN NoRow
  ELSE CHOOSE r \in matching : \A q \in matching : r <= q

\* ------------------------------------------------------------------------
\* XML elements (xml.etree.ElementTree) and the feed merge
\* ------------------------------------------------------------------------
Element(tag) == [tag |-> tag, text |-> <<>>, attrib |-> <<>>, children |-> <<>>]
TextElement(tag, text) == [Element(tag) EXCEPT !.text = text]
AppendChild(parent, child) == [parent EXCEPT !.children = @ \o <<child>>]

\* indexes of the direct children carrying the tag, in document order
findall(element, tag) ==
  {i \in 1..Len(element.children) : element.children[i].tag = tag}
HasChild(element, tag) == findall(element, tag) # {}
\* Element.find: position of the first such child
find(element, tag) ==
  CHOOSE i \in findall(element, tag) : \A j \in findall(element, tag) : i <= j

InsertAt(seq, pos, e) ==
  SubSeq(seq, 1, pos - 1) \o <<e>> \o SubSeq(seq, pos, Len(seq))

\* variant: the item is always appended
add_item_to_channel_append(channel, item) == AppendChild(channel, item)

add_item_to_channel_newest_first(channel, item) ==
  IF HasChild(channel, "item")
  THEN [channel EXCEPT !.children = InsertAt(@, find(channel, "item"), item)]
  ELSE AppendChild(channel, item)

\* urllib quoting of a blob name inside Blob.public_url
RECURSIVE quote(_)
quote(s) ==
  IF s = <<>> THEN <<>>
  ELSE (IF Head(s) = " " THEN <<"%","2","0">> ELSE <<Head(s)>>) \o quote(Tail(s))

public_url(bucket_name, blob_name) ==
  <<"h","t","t","p","s",":","/","/","s","t","o","r","a","g","e",".","g","o","o","g","l","e","a","p","i","s",".","c","o","m","/">> \o bucket_name \o <<"/">> \o quote(blob_name)

\* the <item> built by main()
build_item(title, description, now, url, size, date, filename) ==
  LET enclosure == [Element("enclosure") EXCEPT
                      !.attrib = << <<"url", url>>, <<"length", str(size)>>,
                                    <<"type", <<"a","u","d","i","o","/","x","-","m","4","a">>>> >>]
      guid == [Element("guid") EXCEPT
                 !.attrib = << <<"isPermaLink", <<"f","a","l","s","e">>>> >>,
                 !.text = GuidNamespace \o <<"-">> \o isoformat(date) \o <<"-">> \o filename]
  IN [Element("item") EXCEPT
        !.children = << TextElement("title", title),
                        TextElement("description", description),
                        TextElement("pubDate", str(now)),
                        enclosure, guid >>]

\* blob names of the two artifacts
audio_blob_name(date, filename) ==
  BUCKET_EPISODES_PREFIX \o <<"/">> \o isoformat(date) \o <<"/">> \o filename

RECURSIVE rsplit_dot_head(_)
\* filename.rsplit(".", 1)[0]
rsplit_dot_head(s) ==
  IF \A i \in 1..Len(s) : s[i] # "." THEN s
  ELSE IF s[Len(s)] = "." THEN SubSeq(s, 1, Len(s) - 1)
       ELSE rsplit_dot_head(SubSeq(s, 1, Len(s) - 1))

\* variant: ".mp4" is put after the whole file name
video_blob_name_keep_ext(date, filename) ==
  BUCKET_EPISODES_PREFIX \o <<"/">> \o isoformat(date) \o <<"/">>
    \o filename \o <<".","m","p","4">>

video_blob_name(date, filename) ==
  BUCKET_EPISODES_PREFIX \o <<"/">> \o isoformat(date) \o <<"/">>
    \o rsplit_dot_head(filename) \o <<".","m","p","4">>

\* ------------------------------------------------------------------------
\* Drive
\* ------------------------------------------------------------------------
\* files of the episodes folder, in listing order
DriveFolder ==
  << [id |-> <<"a","1">>, name |-> <<"g","e","n","1",".","m","4","a">>, size |-> 7],
     [id |-> <<"a","2">>, name |-> <<"g","e","n"," ","2",".","m","4","a">>, size |-> 12],
     [id |-> <<"a","3">>, name |-> <<"t","a","l","k",".","m","p","4">>, size |-> 9],
     [id |-> <<"a","4">>, name |-> <<"g","e","n","1">>, size |-> 3],
     [id |-> <<"a","5">>, name |-> <<"d","a","y",".","1",".","m","4","a">>, size |-> 4] >>
\* ids that files().get_media can fetch
DriveIds == {<<"a","1">>, <<"a","2">>, <<"a","3">>, <<"a","4">>, <<"a","5">>, <<"i","m","g","1">>}
FileNotFound == <<"FileNotFoundError">>

drive_find_file_id(filename) ==
  LET hits == {i \in 1..Len(DriveFolder) : DriveFolder[i].name = filename} IN
  IF hits = {} THEN FileNotFound
  ELSE DriveFolder[CHOOSE i \in hits : \A j \in hits : i <= j].id

DriveSize(id) ==
  IF \E i \in 1..Len(DriveFolder) : DriveFolder[i].id = id
  THEN DriveFolder[CHOOSE i \in 1..Len(DriveFolder) : DriveFolder[i].id = id].size
  ELSE 1

\* ------------------------------------------------------------------------
\* State
\* ------------------------------------------------------------------------
VARIABLES
  environ,        \* os.environ: the variables the module configuration reads
  a1,             \* a call of col_to_a1: its argument, n, letters and where it stands
  sf,             \* files and sheet of the state-file variant (src/main.py)
  uploads,        \* upload_from_filename calls completed by the current invocation
  env,            \* EPISODES_FOLDER_ID, SPREADSHEET_ID, BUCKET_NAME
  sheet,          \* the schedule grid: rows of cells
  bucket,         \* episode objects of the bucket
  rss,            \* the rss.xml object: [doc, public]
  local,          \* scratch files /tmp/dd/{audio.m4a, image.png, output.mp4}
  pc,             \* position of the current invocation of main()
  run,            \* number of the current invocation (also its clock reading)
  col_idx,        \* col_index[COL_*] per role
  target_row,     \* 0-based index into values, NoRow for None
  row_data,       \* the padded selected row
  log,            \* external calls completed by the current invocation
  sheet_at_start, \* the grid when the current invocation began
  rss_at_start,   \* the rss.xml object when the current invocation began
  bucket_at_start, \* the episode objects when the current invocation began
  flag_writes,    \* values.update calls completed since the beginning
  feed_writes,    \* rss.xml uploads completed since the beginning
  past            \* each earlier invocation: [pc, target_row, sheet (at its start)]

\* what no stage of automate.main touches
outside == <<environ, a1, sf>>

vars == <<outside, uploads, env, sheet, bucket, rss, local, pc, run, col_idx, target_row, row_data,
          log, sheet_at_start, rss_at_start, bucket_at_start, flag_writes, feed_writes, past>>

NoColumns == [role \in Roles |-> -1]
Terminal == {"Committed", "NoOp", "Failed"}

\* fields of the selected row, as main() reads them
title == strip(row_data[col_idx.title + 1])
description == strip(row_data[col_idx.desc + 1])
filename == strip(row_data[col_idx.file + 1])
image16x9_id == strip(row_data[col_idx.image + 1])

put_blob(objects, blob) == {b \in objects : b.name # blob.name} \cup {blob}

\* ------------------------------------------------------------------------
\* main(), one action per stage; every external call may raise
\* ------------------------------------------------------------------------
\* lines 122-139: configuration checks, credentials, clients
\* variant: the bucket name is not checked
main_start_no_bucket_check ==
  /\ pc = "Idle"
  /\ \E creds_ok \in BOOLEAN :
       pc' = IF \/ falsy(env.EPISODES_FOLDER_ID)
                \/ falsy(env.SPREADSHEET_ID)
                \/ ~creds_ok
             THEN "Failed" ELSE "Started"
  /\ UNCHANGED <<outside, env, sheet, bucket, rss, local, run, col_idx, target_row, row_data,
                 log, sheet_at_start, rss_at_start, bucket_at_start, flag_writes, feed_writes, past, uploads>>

main_start ==
  /\ pc = "Idle"
  /\ \E creds_ok \in BOOLEAN :
       pc' = IF \/ falsy(env.EPISODES_FOLDER_ID)
                \/ falsy(env.SPREADSHEET_ID)
                \/ falsy(env.BUCKET_NAME)
                \/ ~creds_ok
             THEN "Failed" ELSE "Started"
  /\ UNCHANGED <<outside, env, sheet, bucket, rss, local, run, col_idx, target_row, row_data,
                 log, sheet_at_start, rss_at_start, bucket_at_start, flag_writes, feed_writes, past, uploads>>

\* variant: the image reference is not validated
main_read_sheet_no_image_check ==
  /\ pc = "Started"
  /\ \E get_ok \in BOOLEAN :
       IF ~get_ok
       THEN /\ pc' = "Failed"
            /\ UNCHANGED <<col_idx, target_row, row_data, log>>
       ELSE
         LET values == values_get(sheet) IN
         /\ log' = log \o <<"values.get">>
         /\ IF values = <<>>
            THEN /\ pc' = "NoOp"
                 /\ UNCHANGED <<col_idx, target_row, row_data>>
            ELSE
              LET col_index == build_col_index(values[1])
                  COL == resolve_columns(col_index)
              IN IF \E role \in Roles : COL[role] = KeyError
                 THEN /\ pc' = "Failed"
                      /\ UNCHANGED <<col_idx, target_row, row_data>>
                 ELSE
                   LET idx == [role \in Roles |-> col_index[COL[role]]]
                       r == find_target_row(values, idx, TargetDate)
                       row == pad_row(values[r + 1], Len(values[1]))
                   IN /\ col_idx' = idx
                      /\ target_row' = r
                      /\ IF r = NoRow
                         THEN /\ pc' = "NoOp"
                              /\ UNCHANGED row_data
                         ELSE /\ row_data' = row
                              /\ pc' = IF \/ strip(row[idx.title + 1]) = <<>>
                                          \/ strip(row[idx.file + 1]) = <<>>
                                       THEN "Failed" ELSE "RowFound"
  /\ UNCHANGED <<outside, env, sheet, bucket, rss, local, run,
                 sheet_at_start, rss_at_start, bucket_at_start, flag_writes, feed_writes, past, uploads>>

\* lines 142-208: read the sheet, resolve the columns, find today's row, validate it
main_read_sheet ==
  /\ pc = "Started"
  /\ \E get_ok \in BOOLEAN :
       IF ~get_ok
       THEN /\ pc' = "Failed"
            /\ UNCHANGED <<col_idx, target_row, row_data, log>>
       ELSE
         LET values == values_get(sheet) IN
         /\ log' = log \o <<"values.get">>
         /\ IF values = <<>>
            THEN /\ pc' = "NoOp"
                 /\ UNCHANGED <<col_idx, target_row, row_data>>
            ELSE
              LET col_index == build_col_index(values[1])
                  COL == resolve_columns(col_index)
              IN IF \E role \in Roles : COL[role] = KeyError
                 THEN /\ pc' = "Failed"
                      /\ UNCHANGED <<col_idx, target_row, row_data>>
                 ELSE
                   LET idx == [role \in Roles |-> col_index[COL[role]]]
                       r == find_target_row(values, idx, TargetDate)
                       row == pad_row(values[r + 1], Len(values[1]))
                   IN /\ col_idx' = idx
                      /\ target_row' = r
                      /\ IF r = NoRow
                         THEN /\ pc' = "NoOp"
                              /\ UNCHANGED row_data
                         ELSE /\ row_data' = row
                              /\ pc' = IF \/ strip(row[idx.title + 1]) = <<>>
                                          \/ strip(row[idx.file + 1]) = <<>>
                                          \/ strip(row[idx.image + 1]) = <<>>
                                       THEN "Failed" ELSE "RowFound"
  /\ UNCHANGED <<outside, env, sheet, bucket, rss, local, run,
                 sheet_at_start, rss_at_start, bucket_at_start, flag_writes, feed_writes, past, uploads>>

\* lines 217-219: find the audio by name, download audio and image
main_download ==
  /\ pc = "RowFound"
  /\ \E list_ok \in BOOLEAN, audio_ok \in BOOLEAN, image_ok \in BOOLEAN :
       LET audio_file_id == drive_find_file_id(filename) IN
       IF ~list_ok \/ audio_file_id = FileNotFound
       THEN /\ pc' = "Failed"
            /\ log' = IF list_ok THEN log \o <<"files.list">> ELSE log
            /\ UNCHANGED local
       ELSE IF ~audio_ok
       THEN /\ pc' = "Failed"
            /\ log' = log \o <<"files.list">>
            /\ local' = [local EXCEPT !.audio = <<>>]
       ELSE IF ~image_ok \/ image16x9_id \notin DriveIds
       THEN /\ pc' = "Failed"
            /\ log' = log \o <<"files.list", "get_media audio">>
            /\ local' = [local EXCEPT !.audio = <<audio_file_id>>, !.image = <<>>]
       ELSE /\ pc' = "ArtifactsFetched"
            /\ log' = log \o <<"files.list", "get_media audio", "get_media image">>
            /\ local' = [local EXCEPT !.audio = <<audio_file_id>>,
                                      !.image = <<image16x9_id>>]
  /\ UNCHANGED <<outside, env, sheet, bucket, rss, run, col_idx, target_row, row_data,
                 sheet_at_start, rss_at_start, bucket_at_start, flag_writes, feed_writes, past, uploads>>

\* variant: subprocess.run without check=True, the exit status is ignored
run_ffmpeg_unchecked ==
  /\ pc = "ArtifactsFetched"
  /\ \E returncode \in {0, 1} :
       /\ pc' = "Rendered"
       /\ log' = log \o <<IF returncode = 0 THEN "ffmpeg 0" ELSE "ffmpeg 1">>
       /\ local' = [local EXCEPT !.video =
                      IF returncode = 0 THEN local.image \o local.audio ELSE <<>>]
  /\ UNCHANGED <<outside, env, sheet, bucket, rss, run, col_idx, target_row, row_data,
                 sheet_at_start, rss_at_start, bucket_at_start, flag_writes, feed_writes, past, uploads>>

\* line 222: run_ffmpeg, subprocess.run(cmd, check=True)
run_ffmpeg ==
  /\ pc = "ArtifactsFetched"
  /\ \E returncode \in {0, 1} :
       IF returncode = 0
       THEN /\ pc' = "Rendered"
            /\ log' = log \o <<"ffmpeg 0">>
            /\ local' = [local EXCEPT !.video = local.image \o local.audio]
       ELSE /\ pc' = "Failed"
            /\ log' = log \o <<"ffmpeg 1">>
            /\ local' = [local EXCEPT !.video = <<>>]
  /\ UNCHANGED <<outside, env, sheet, bucket, rss, run, col_idx, target_row, row_data,
                 sheet_at_start, rss_at_start, bucket_at_start, flag_writes, feed_writes, past, uploads>>

\* lines 225-234: upload the audio, try to make it public
\* variant: an exception of make_public is not caught
main_upload_audio_public_fatal ==
  /\ pc = "Rendered"
  /\ \E upload_ok \in BOOLEAN, public_ok \in BOOLEAN :
       IF ~upload_ok
       THEN /\ pc' = "Failed"
            /\ UNCHANGED <<bucket, log, uploads>>
       ELSE /\ pc' = IF public_ok THEN "AudioUploaded" ELSE "Failed"
            /\ bucket' = put_blob(bucket,
                 [name |-> audio_blob_name(TargetDate, filename),
                  content_type |-> "audio/x-m4a",
                  data |-> local.audio, public |-> public_ok])
            /\ uploads' = uploads \o
                 <<[name |-> audio_blob_name(TargetDate, filename),
                    content_type |-> "audio/x-m4a", data |-> local.audio]>>
            /\ log' = log \o <<"upload audio">>
  /\ UNCHANGED <<outside, env, sheet, rss, local, run, col_idx, target_row, row_data,
                 sheet_at_start, rss_at_start, bucket_at_start, flag_writes, feed_writes, past>>

main_upload_audio ==
  /\ pc = "Rendered"
  /\ \E upload_ok \in BOOLEAN, public_ok \in BOOLEAN :
       IF ~upload_ok
       THEN /\ pc' = "Failed"
            /\ UNCHANGED <<bucket, log, uploads>>
       ELSE /\ pc' = "AudioUploaded"
            /\ bucket' = put_blob(bucket,
                 [name |-> audio_blob_name(TargetDate, filename),
                  content_type |-> "audio/x-m4a",
                  data |-> local.audio, public |-> public_ok])
            /\ uploads' = uploads \o
                 <<[name |-> audio_blob_name(TargetDate, filename),
                    content_type |-> "audio/x-m4a", data |-> local.audio]>>
            /\ log' = log \o <<"upload audio">>
  /\ UNCHANGED <<outside, env, sheet, rss, local, run, col_idx, target_row, row_data,
                 sheet_at_start, rss_at_start, bucket_at_start, flag_writes, feed_writes, past>>

\* variant: the processed flag is written right after the video upload
main_upload_video_then_mark ==
  /\ pc = "AudioUploaded"
  /\ \E upload_ok \in BOOLEAN, public_ok \in BOOLEAN :
       IF ~upload_ok
       THEN /\ pc' = "Failed"
            /\ UNCHANGED <<bucket, log, sheet, flag_writes, uploads>>
       ELSE /\ pc' = "Published"
            /\ bucket' = put_blob(bucket,
                 [name |-> video_blob_name(TargetDate, filename),
                  content_type |-> "video/mp4",
                  data |-> local.video, public |-> public_ok])
            /\ uploads' = uploads \o
                 <<[name |-> video_blob_name(TargetDate, filename),
                    content_type |-> "video/mp4", data |-> local.video]>>
            /\ sheet' = values_update(sheet, col_to_a1(col_idx.processed),
                                      target_row + 1, <<"y","e","s">>)
            /\ log' = log \o <<"upload video", "values.update">>
            /\ flag_writes' = flag_writes + 1
  /\ UNCHANGED <<outside, env, rss, local, run, col_idx, target_row, row_data,
                 sheet_at_start, rss_at_start, bucket_at_start, feed_writes, past>>

\* lines 236-241: upload the video, try to make it public
main_upload_video ==
  /\ pc = "AudioUploaded"
  /\ \E upload_ok \in BOOLEAN, public_ok \in BOOLEAN :
       IF ~upload_ok
       THEN /\ pc' = "Failed"
            /\ UNCHANGED <<bucket, log, uploads>>
       ELSE /\ pc' = "Published"
            /\ bucket' = put_blob(bucket,
                 [name |-> video_blob_name(TargetDate, filename),
                  content_type |-> "video/mp4",
                  data |-> local.video, public |-> public_ok])
            /\ uploads' = uploads \o
                 <<[name |-> video_blob_name(TargetDate, filename),
                    content_type |-> "video/mp4", data |-> local.video]>>
            /\ log' = log \o <<"upload video">>
  /\ UNCHANGED <<outside, env, sheet, rss, local, run, col_idx, target_row, row_data,
                 sheet_at_start, rss_at_start, bucket_at_start, flag_writes, feed_writes, past>>

\* the document after lines 247-266, given that it has a channel
updated_feed(root) ==
  LET c == find(root, "channel")
      item == build_item(title, description, run,
                public_url(env.BUCKET_NAME, audio_blob_name(TargetDate, filename)),
                DriveSize(local.audio[1]), TargetDate, filename)
  IN [root EXCEPT !.children[c] = add_item_to_channel_newest_first(@, item)]

\* lines 244-273: download rss.xml, insert the item, upload it, try to make it public
\* variant: the feed is updated without waiting for the video upload
main_update_rss_before_video ==
  /\ pc \in {"AudioUploaded", "Published"}
  /\ \E download_ok \in BOOLEAN, upload_ok \in BOOLEAN, public_ok \in BOOLEAN :
       IF ~download_ok
       THEN /\ pc' = "Failed"
            /\ UNCHANGED <<rss, log, feed_writes>>
       ELSE IF ~HasChild(rss.doc, "channel") \/ ~upload_ok
       THEN /\ pc' = "Failed"
            /\ log' = log \o <<"download rss">>
            /\ UNCHANGED <<rss, feed_writes>>
       ELSE /\ pc' = "FeedUpdated"
            /\ rss' = [doc |-> updated_feed(rss.doc), public |-> public_ok]
            /\ log' = log \o <<"download rss", "upload rss">>
            /\ feed_writes' = feed_writes + 1
  /\ UNCHANGED <<outside, env, sheet, bucket, local, run, col_idx, target_row, row_data,
                 sheet_at_start, rss_at_start, bucket_at_start, flag_writes, past, uploads>>

\* variant: a document without channel is written back as it is
main_update_rss_without_channel ==
  /\ pc = "Published"
  /\ \E download_ok \in BOOLEAN, upload_ok \in BOOLEAN, public_ok \in BOOLEAN :
       IF ~download_ok
       THEN /\ pc' = "Failed"
            /\ UNCHANGED <<rss, log, feed_writes>>
       ELSE IF ~upload_ok
       THEN /\ pc' = "Failed"
            /\ log' = log \o <<"download rss">>
            /\ UNCHANGED <<rss, feed_writes>>
       ELSE /\ pc' = "FeedUpdated"
            /\ rss' = [doc |-> IF HasChild(rss.doc, "channel")
                               THEN updated_feed(rss.doc) ELSE rss.doc,
                       public |-> public_ok]
            /\ log' = log \o <<"download rss", "upload rss">>
            /\ feed_writes' = feed_writes + 1
  /\ UNCHANGED <<outside, env, sheet, bucket, local, run, col_idx, target_row, row_data,
                 sheet_at_start, rss_at_start, bucket_at_start, flag_writes, past, uploads>>

main_update_rss ==
  /\ pc = "Published"
  /\ \E download_ok \in BOOLEAN, upload_ok \in BOOLEAN, public_ok \in BOOLEAN :
       IF ~download_ok
       THEN /\ pc' = "Failed"
            /\ UNCHANGED <<rss, log, feed_writes>>
       ELSE IF ~HasChild(rss.doc, "channel") \/ ~upload_ok
       THEN /\ pc' = "Failed"
            /\ log' = log \o <<"download rss">>
            /\ UNCHANGED <<rss, feed_writes>>
       ELSE /\ pc' = "FeedUpdated"
            /\ rss' = [doc |-> updated_feed(rss.doc), public |-> public_ok]
            /\ log' = log \o <<"download rss", "upload rss">>
            /\ feed_writes' = feed_writes + 1
  /\ UNCHANGED <<outside, env, sheet, bucket, local, run, col_idx, target_row, row_data,
                 sheet_at_start, rss_at_start, bucket_at_start, flag_writes, past, uploads>>

\* variant: the range uses target_row, not target_row + 1
main_mark_processed_row_above ==
  /\ pc = "FeedUpdated"
  /\ \E update_ok \in BOOLEAN :
       IF ~update_ok
       THEN /\ pc' = "Failed"
            /\ UNCHANGED <<sheet, log, flag_writes>>
       ELSE /\ pc' = "Committed"
            /\ sheet' = values_update(sheet, col_to_a1(col_idx.processed),
                                      target_row, <<"y","e","s">>)
            /\ log' = log \o <<"values.update">>
            /\ flag_writes' = flag_writes + 1
  /\ UNCHANGED <<outside, env, bucket, rss, local, run, col_idx, target_row, row_data,
                 sheet_at_start, rss_at_start, bucket_at_start, feed_writes, past, uploads>>

\* lines 276-282: write "yes" into the processed cell of the selected row
main_mark_processed ==
  /\ pc = "FeedUpdated"
  /\ \E update_ok \in BOOLEAN :
       IF ~update_ok
       THEN /\ pc' = "Failed"
            /\ UNCHANGED <<sheet, log, flag_writes>>
       ELSE /\ pc' = "Committed"
            /\ sheet' = values_update(sheet, col_to_a1(col_idx.processed),
                                      target_row + 1, <<"y","e","s">>)
            /\ log' = log \o <<"values.update">>
            /\ flag_writes' = flag_writes + 1
  /\ UNCHANGED <<outside, env, bucket, rss, local, run, col_idx, target_row, row_data,
                 sheet_at_start, rss_at_start, bucket_at_start, feed_writes, past, uploads>>

\* ------------------------------------------------------------------------
\* Bounds
\* ------------------------------------------------------------------------
MaxRuns == 2   \* invocations of the job
MaxRows == 2   \* data rows of the schedule
MaxChildren == 3   \* children of the stored feed's channel
\* the largest column index given to col_to_a1
MaxColumn == 750
\* data rows of the devotions sheet
MaxSheetRows == 3
\* invocations of process_devotions
MaxStateRuns == 3

\* the scheduler starts the job again after the previous invocation ended
next_invocation ==
  /\ pc \in Terminal
  /\ run < MaxRuns
  /\ pc' = "Idle"
  /\ run' = run + 1
  /\ past' = past \o <<[pc |-> pc, target_row |-> target_row, sheet |-> sheet_at_start]>>
  /\ col_idx' = NoColumns
  /\ target_row' = NoRow
  /\ row_data' = <<>>
  /\ log' = <<>>
  /\ uploads' = <<>>
  /\ sheet_at_start' = sheet
  /\ rss_at_start' = rss
  /\ bucket_at_start' = bucket
  /\ UNCHANGED <<outside, env, sheet, bucket, rss, local, flag_writes, feed_writes>>

Next ==
  \/ main_start
  \/ main_read_sheet
  \/ main_download
  \/ run_ffmpeg
  \/ main_upload_audio
  \/ main_upload_video
  \/ main_update_rss
  \/ main_mark_processed
  \/ next_invocation

\* ------------------------------------------------------------------------
\* Initial states: schedules, feeds and environments the job can meet
\* ------------------------------------------------------------------------
Columns == Roles \cup {"notes"}
Rec(publish, ttl, desc, file, processed, image) ==
  [publish |-> publish, title |-> ttl, desc |-> desc, file |-> file,
   processed |-> processed, image |-> image, notes |-> <<>>]
\* the cells of a record laid out in the column order of the sheet
Arrange(layout, rec) == [i \in 1..Len(layout) |-> rec[layout[i]]]
Grid(layout, names, rows) ==
  <<Arrange(layout, names)>> \o [i \in 1..Len(rows) |-> Arrange(layout, rows[i])]

CanonicalLayout == <<"publish", "title", "desc", "file", "processed", "image">>
CanonicalNames ==
  [Rec(<<"P","u","b","l","i","s","h"," ","D","a","t","e">>, <<"T","i","t","l","e">>, <<"D","e","s","c","r","i","p","t","i","o","n">>, <<"F","i","l","e"," ","N","a","m","e">>, <<"P","r","o","c","e","s","s","e","d">>,
       <<"I","m","a","g","e","1","6","x","9","F","i","l","e","I","d">>) EXCEPT !.notes = <<"N","o","t","e","s">>]
\* synonyms, padded with blanks, in another column order and with a seventh column
VariantLayout == <<"processed", "notes", "image", "file", "desc", "title", "publish">>
VariantNames ==
  [Rec(<<" ","p","u","b","l","i","s","h","_","d","a","t","e">>, <<"t","i","t","l","e"," ">>, <<"d","e","s","c","r","i","p","t","i","o","n">>, <<"F","i","l","e","n","a","m","e">>, <<" ","S","t","a","t","u","s"," ">>,
       <<"I","m","a","g","e","1","6","x","9","F","i","l","e","I","D">>) EXCEPT !.notes = <<"N","o","t","e","s">>]
\* no column for the processed flag
UnresolvedNames == [CanonicalNames EXCEPT !.processed = <<"D","o","n","e","?">>]

Today == <<"2","0","2","4","-","0","3","-","0","1">>
RowToday == Rec(Today, <<"G","e","n","e","s","i","s"," ","1">>, <<"I","n"," ","t","h","e"," ","b","e","g","i","n","n","i","n","g">>, <<"g","e","n","1",".","m","4","a">>, <<>>, <<"i","m","g","1">>)
RowToday2 == Rec(Today, <<"G","e","n","e","s","i","s"," ","2">>, <<>>, <<"g","e","n"," ","2",".","m","4","a">>, <<>>, <<"i","m","g","1">>)
RowDone == Rec(Today, <<"G","e","n","e","s","i","s"," ","1">>, <<>>, <<"g","e","n","1",".","m","4","a">>, <<"y","e","s">>, <<"i","m","g","1">>)
RowOther == Rec(<<"2","0","2","4","-","0","3","-","0","2">>, <<"G","e","n","e","s","i","s"," ","3">>, <<>>, <<"g","e","n","1",".","m","4","a">>, <<>>, <<"i","m","g","1">>)
RowNoTitle == Rec(Today, <<>>, <<>>, <<"g","e","n","1",".","m","4","a">>, <<>>, <<"i","m","g","1">>)
RowNoFile == Rec(Today, <<"G","e","n","e","s","i","s"," ","4">>, <<>>, <<"g","e","n","4",".","m","4","a">>, <<>>, <<"i","m","g","1">>)
RowKinds == {RowToday, RowToday2, RowDone, RowOther, RowNoTitle, RowNoFile}

SeqsUpTo(S, n) == UNION {[1..k -> S] : k \in 0..n}

OldItem(name) ==
  build_item(name, <<>>, 0, public_url(<<"b","k","t">>, <<"e","p","i","s","o","d","e","s","/","2","0","2","4","-","0","2","-","2","9","/">> \o name), 5,
             Date(2024, 2, 29), name)
ChannelOf(children) == [Element("channel") EXCEPT !.children = children]
RssOf(children) == [Element("rss") EXCEPT !.children = children]
FeedNoChannel == RssOf(<<>>)
FeedEmpty ==
  RssOf(<<ChannelOf(<<TextElement("title", <<"D","e","e","p"," ","D","i","v","e">>), TextElement("link", <<"x">>)>>)>>)
FeedWithItems ==
  RssOf(<<ChannelOf(<<TextElement("title", <<"D","e","e","p"," ","D","i","v","e">>), OldItem(<<"b",".","m","4","a">>),
                      OldItem(<<"a",".","m","4","a">>), TextElement("language", <<"e","n">>)>>)>>)

GoodEnv == [EPISODES_FOLDER_ID |-> <<"f","o","l","d","e","r">>, SPREADSHEET_ID |-> <<"s","h","e","e","t">>,
            BUCKET_NAME |-> <<"b","k","t">>]
BadEnvs == {[GoodEnv EXCEPT !.EPISODES_FOLDER_ID = <<>>],
            [GoodEnv EXCEPT !.SPREADSHEET_ID = <<>>],
            [GoodEnv EXCEPT !.BUCKET_NAME = <<>>]}

\* environments that set each value through its first variable name
GoodEnviron ==
  [DAILY_FOLDER_ID |-> <<"f","o","l","d","e","r">>, EPISODES_FOLDER_ID |-> Unset,
   SHEET_ID |-> <<"s","h","e","e","t">>, SPREADSHEET_ID |-> Unset,
   RSS_BUCKET |-> <<"b","k","t">>, BUCKET_NAME |-> Unset]
BasicEnvirons ==
  {GoodEnviron,
   [GoodEnviron EXCEPT !.DAILY_FOLDER_ID = Unset, !.EPISODES_FOLDER_ID = <<>>],
   [GoodEnviron EXCEPT !.SHEET_ID = Unset, !.SPREADSHEET_ID = <<>>],
   [GoodEnviron EXCEPT !.RSS_BUCKET = Unset, !.BUCKET_NAME = <<>>]}

\* the parts of the state that belong to the other entry points
A1Idle == [at |-> "idle", input |-> 0, n |-> 0, letters |-> <<>>]
SfIdle == [rows |-> <<>>, state |-> <<>>, feed |-> <<>>, clock |-> 0, read |-> -1,
           feed_writes |-> 0, state_writes |-> 0, pushes |-> 0]

\* everything except the schedule, the feed and the environment
\* the pipeline before its first invocation has started
InitPipeline ==
  /\ uploads = <<>>
  /\ bucket = {}
  /\ local = [audio |-> <<>>, image |-> <<>>, video |-> <<>>]
  /\ pc = "Idle"
  /\ run = 1
  /\ col_idx = NoColumns
  /\ target_row = NoRow
  /\ row_data = <<>>
  /\ log = <<>>
  /\ sheet_at_start = sheet
  /\ rss_at_start = rss
  /\ bucket_at_start = bucket
  /\ flag_writes = 0
  /\ feed_writes = 0
  /\ past = <<>>

InitRun ==
  /\ a1 = A1Idle
  /\ sf = SfIdle
  /\ InitPipeline

InitRest ==
  /\ environ \in {e \in BasicEnvirons : module_config(e) = env}
  /\ InitRun

Init ==
  /\ \E rows \in SeqsUpTo(RowKinds, MaxRows) :
       \/ /\ sheet = Grid(CanonicalLayout, CanonicalNames, rows)
          /\ env = GoodEnv
          /\ \E doc \in {FeedNoChannel, FeedEmpty, FeedWithItems} :
               rss = [doc |-> doc, public |-> TRUE]
       \/ /\ \/ sheet = Grid(VariantLayout, VariantNames, rows)
             \/ sheet = Grid(CanonicalLayout, UnresolvedNames, rows)
             \/ sheet = <<>> /\ rows = <<>>
          /\ env = GoodEnv
          /\ rss = [doc |-> FeedWithItems, public |-> TRUE]
       \/ /\ sheet = Grid(CanonicalLayout, CanonicalNames, rows)
          /\ env \in BadEnvs
          /\ rss = [doc |-> FeedWithItems, public |-> TRUE]
  /\ InitRest

Spec == Init /\ [][Next]_vars

\* the steps of main(); it is sequential code, a step that can be made is made
Run ==
  \/ main_start
  \/ main_read_sheet
  \/ main_download
  \/ run_ffmpeg
  \/ main_upload_audio
  \/ main_upload_video
  \/ main_update_rss
  \/ main_mark_processed
SpecLive == Init /\ [][Next]_vars /\ WF_vars(Run)

\* one publishable row, and every stored feed whose channel has up to
\* MaxChildren children drawn from two metadata elements and two items
FeedChildren ==
  {TextElement("title", <<"D","e","e","p"," ","D","i","v","e">>), TextElement("language", <<"e","n">>),
   OldItem(<<"a",".","m","4","a">>), OldItem(<<"b",".","m","4","a">>)}
InitFeed ==
  /\ sheet = Grid(CanonicalLayout, CanonicalNames, <<RowToday>>)
  /\ env = GoodEnv
  /\ \E children \in SeqsUpTo(FeedChildren, MaxChildren) :
       rss = [doc |-> RssOf(<<ChannelOf(children)>>), public |-> TRUE]
  /\ InitRest

SpecFeed == InitFeed /\ [][Next]_vars

\* schedules whose rows lack a required field
RowBlankTitle == [RowToday EXCEPT !.title = <<" "," ">>]
RowNoFileName == [RowToday EXCEPT !.file = <<>>]
RowNoImage == [RowToday2 EXCEPT !.image = <<>>]
InitRows ==
  /\ \E rows \in SeqsUpTo({RowToday, RowOther, RowNoTitle, RowBlankTitle,
                           RowNoFileName, RowNoImage}, MaxRows) :
       sheet = Grid(CanonicalLayout, CanonicalNames, rows)
  /\ env = GoodEnv
  /\ rss = [doc |-> FeedEmpty, public |-> TRUE]
  /\ InitRest

SpecRows == InitRows /\ [][Next]_vars

\* schedules of one row whose file name varies in its extension
FileNames == {<<"g","e","n","1",".","m","4","a">>, <<"g","e","n"," ","2",".","m","4","a">>, <<"t","a","l","k",".","m","p","4">>, <<"g","e","n","1">>, <<"d","a","y",".","1",".","m","4","a">>}
InitNames ==
  /\ \E f \in FileNames, rows \in SeqsUpTo({RowOther}, 1) :
       sheet = Grid(CanonicalLayout, CanonicalNames, rows \o <<[RowToday EXCEPT !.file = f]>>)
  /\ env = GoodEnv
  /\ \E doc \in {FeedEmpty, FeedWithItems} : rss = [doc |-> doc, public |-> TRUE]
  /\ InitRest

SpecNames == InitNames /\ [][Next]_vars

\* environments in which one pair of variables is unset, empty or set, and
\* the environment that sets nothing
Settings(primary, fallback, value) ==
  {[GoodEnviron EXCEPT ![primary] = p, ![fallback] = f] :
     p \in {Unset, <<>>, value}, f \in {Unset, <<>>, value}}
NothingSet == [v \in DOMAIN GoodEnviron |-> Unset]
Environs ==
  Settings("DAILY_FOLDER_ID", "EPISODES_FOLDER_ID", <<"f","o","l","d","e","r">>)
    \cup Settings("SHEET_ID", "SPREADSHEET_ID", <<"s","h","e","e","t">>)
    \cup Settings("RSS_BUCKET", "BUCKET_NAME", <<"b","k","t">>)
    \cup {NothingSet}
InitConfig ==
  /\ environ \in Environs
  /\ env = module_config(environ)
  /\ sheet = Grid(CanonicalLayout, CanonicalNames, <<RowToday>>)
  /\ rss = [doc |-> FeedEmpty, public |-> TRUE]
  /\ InitRun

SpecConfig == InitConfig /\ [][Next]_vars

\* one pass of the loop of col_to_a1
col_to_a1_step_plain_base26 ==
  /\ a1.at = "loop"
  /\ LET q == a1.n \div 26
         rem == a1.n % 26
     IN a1' = [a1 EXCEPT !.letters = <<UpperLetters[rem + 1]>> \o @,
                         !.n = q,
                         !.at = IF q = 0 THEN "return" ELSE "loop"]
  /\ UNCHANGED <<environ, sf, uploads, env, sheet, bucket, rss, local, pc, run, col_idx,
                 target_row, row_data, log, sheet_at_start, rss_at_start, bucket_at_start,
                 flag_writes, feed_writes, past>>

col_to_a1_step ==
  /\ a1.at = "loop"
  /\ LET q == a1.n \div 26
         rem == a1.n % 26
     IN a1' = [a1 EXCEPT !.letters = <<UpperLetters[rem + 1]>> \o @,
                         !.n = IF q = 0 THEN 0 ELSE q - 1,
                         !.at = IF q = 0 THEN "return" ELSE "loop"]
  /\ UNCHANGED <<environ, sf, uploads, env, sheet, bucket, rss, local, pc, run, col_idx,
                 target_row, row_data, log, sheet_at_start, rss_at_start, bucket_at_start,
                 flag_writes, feed_writes, past>>

\* calls of col_to_a1 with every index up to MaxColumn
InitA1 ==
  /\ \E i \in 0..MaxColumn : a1 = [at |-> "loop", input |-> i, n |-> i, letters |-> <<>>]
  /\ environ = GoodEnviron
  /\ env = GoodEnv
  /\ sheet = Grid(CanonicalLayout, CanonicalNames, <<RowToday>>)
  /\ rss = [doc |-> FeedEmpty, public |-> TRUE]
  /\ sf = SfIdle
  /\ InitPipeline

NextA1 == col_to_a1_step
\* the loop is sequential code: a pass that can be made is made
SpecA1 == InitA1 /\ [][NextA1]_vars /\ WF_vars(col_to_a1_step)

\* ------------------------------------------------------------------------
\* the state-file variant (src/src/main.py)
\* ------------------------------------------------------------------------
\* SheetsClient.get_devotions: one dict per row after the header row, as the
\* sequence of its (header, cell) pairs
get_devotions(rows) ==
  IF rows = <<>> THEN <<>>
  ELSE [r \in 1..(Len(rows) - 1) |->
          [i \in 1..Len(rows[1]) |-> <<rows[1][i], pad_row(rows[r + 1], Len(rows[1]))[i]>>]]
\* dict.get(key, default)
dict_get(d, key, default) ==
  IF \A i \in 1..Len(d) : d[i][1] # key THEN default
  ELSE d[CHOOSE i \in 1..Len(d) : d[i][1] = key /\ \A j \in (i + 1)..Len(d) : d[j][1] # key][2]
\* load_state: the file's content, or the default state when there is no file
load_state(file) ==
  IF file # <<>> THEN file[1]
  ELSE [last_processed_row |-> 0, last_updated |-> -1, published_items |-> <<>>]
\* the guids of the feed made of all devotions
create_feed_from_devotions(devotions) ==
  [k \in 1..Len(devotions) |->
     dict_get(devotions[k], <<"i","d">>,
              dict_get(devotions[k], <<"t","i","t","l","e">>, <<"U","n","t","i","t","l","e","d">>) \o <<"-">>
                \o dict_get(devotions[k], <<"d","a","t","e">>, <<>>))]
\* devotions[n:]
slice_from(seq, n) == SubSeq(seq, n + 1, Len(seq))

\* variant: the run goes on when no devotion is new
process_devotions_no_new_check ==
  /\ sf.clock < MaxStateRuns
  /\ \E http_ok \in BOOLEAN, feed_ok \in BOOLEAN, save_ok \in BOOLEAN, push \in BOOLEAN :
       LET state == load_state(sf.state)
           devotions == IF http_ok THEN get_devotions(sf.rows) ELSE <<>>
           new_devotions == slice_from(devotions, state.last_processed_row)
           saved == [last_processed_row |-> Len(devotions),
                     last_updated |-> sf.clock,
                     published_items |-> state.published_items \o
                        [i \in 1..Len(new_devotions) |->
                           dict_get(new_devotions[i], <<"i","d">>, <<"i","t","e","m","-">> \o str(i - 1))]]
           ran == [sf EXCEPT !.clock = @ + 1, !.read = Len(devotions)]
       IN IF devotions = <<>> \/ ~feed_ok
          THEN sf' = ran
          ELSE IF ~save_ok
          THEN sf' = [ran EXCEPT !.feed = <<create_feed_from_devotions(devotions)>>,
                                 !.feed_writes = @ + 1]
          ELSE sf' = [ran EXCEPT !.feed = <<create_feed_from_devotions(devotions)>>,
                                 !.feed_writes = @ + 1,
                                 !.state = <<saved>>,
                                 !.state_writes = @ + 1,
                                 !.pushes = IF push THEN @ + 1 ELSE @]
  /\ UNCHANGED <<environ, a1, uploads, env, sheet, bucket, rss, local, pc, run, col_idx,
                 target_row, row_data, log, sheet_at_start, rss_at_start, bucket_at_start,
                 flag_writes, feed_writes, past>>

\* lines 47-118: one invocation of process_devotions
process_devotions ==
  /\ sf.clock < MaxStateRuns
  /\ \E http_ok \in BOOLEAN, feed_ok \in BOOLEAN, save_ok \in BOOLEAN, push \in BOOLEAN :
       LET state == load_state(sf.state)
           devotions == IF http_ok THEN get_devotions(sf.rows) ELSE <<>>
           new_devotions == slice_from(devotions, state.last_processed_row)
           saved == [last_processed_row |-> Len(devotions),
                     last_updated |-> sf.clock,
                     published_items |-> state.published_items \o
                        [i \in 1..Len(new_devotions) |->
                           dict_get(new_devotions[i], <<"i","d">>, <<"i","t","e","m","-">> \o str(i - 1))]]
           ran == [sf EXCEPT !.clock = @ + 1, !.read = Len(devotions)]
       IN IF devotions = <<>> \/ new_devotions = <<>> \/ ~feed_ok
          THEN sf' = ran
          ELSE IF ~save_ok
          THEN sf' = [ran EXCEPT !.feed = <<create_feed_from_devotions(devotions)>>,
                                 !.feed_writes = @ + 1]
          ELSE sf' = [ran EXCEPT !.feed = <<create_feed_from_devotions(devotions)>>,
                                 !.feed_writes = @ + 1,
                                 !.state = <<saved>>,
                                 !.state_writes = @ + 1,
                                 !.pushes = IF push THEN @ + 1 ELSE @]
  /\ UNCHANGED <<environ, a1, uploads, env, sheet, bucket, rss, local, pc, run, col_idx,
                 target_row, row_data, log, sheet_at_start, rss_at_start, bucket_at_start,
                 flag_writes, feed_writes, past>>

\* the sheets the runs may find: empty, or a header row followed by up to
\* MaxSheetRows rows; row k is the same whenever it is present
DevotionRow(with_id, k) ==
  IF with_id THEN <<<<"d">> \o str(k), <<"P","s","a","l","m"," ">> \o str(k), <<"2","0","2","4","-","0","3","-","0","1">>>>
  ELSE <<<<"P","s","a","l","m"," ">> \o str(k), <<"2","0","2","4","-","0","3","-","0","1">>>>
DevotionSheets ==
  {<<>>} \cup
  {<<IF with_id THEN <<<<"i","d">>, <<"t","i","t","l","e">>, <<"d","a","t","e">>>> ELSE <<<<"t","i","t","l","e">>, <<"d","a","t","e">>>>>>
     \o [k \in 1..n |-> DevotionRow(with_id, k)] :
       with_id \in BOOLEAN, n \in 0..MaxSheetRows}
\* between two runs the sheet is edited: rows are added or removed
edit_sheet ==
  /\ \E rows \in DevotionSheets \ {sf.rows} : sf' = [sf EXCEPT !.rows = rows]
  /\ UNCHANGED <<environ, a1, uploads, env, sheet, bucket, rss, local, pc, run, col_idx,
                 target_row, row_data, log, sheet_at_start, rss_at_start, bucket_at_start,
                 flag_writes, feed_writes, past>>

InitState ==
  /\ \E rows \in DevotionSheets : sf = [SfIdle EXCEPT !.rows = rows]
  /\ a1 = A1Idle
  /\ environ = GoodEnviron
  /\ env = GoodEnv
  /\ sheet = Grid(CanonicalLayout, CanonicalNames, <<RowToday>>)
  /\ rss = [doc |-> FeedEmpty, public |-> TRUE]
  /\ InitPipeline

NextState == process_devotions \/ edit_sheet
SpecState == InitState /\ [][NextState]_vars

\* schedules for the row scan: one row whose date and processed cells range
\* over the spellings below, among rows that are plainly publishable or
\* plainly dated another day
DateCells ==
  {<<>>, <<" "," ">>, Today, <<" ","2","0","2","4","-","0","3","-","0","1"," ">>, <<"2","0","2","4","-","3","-","1">>, <<"0","3","/","0","1","/","2","0","2","4">>,
   <<"2","0","2","4","-","0","2","-","3","0">>, <<"2","0","2","4","-","0","3","-","0","2">>, <<"2","0","2","4","-","0","3","-","0","1","x">>}
FlagCells ==
  {<<>>, <<"y","e","s">>, <<"Y">>, <<"T","R","U","E">>, <<"1">>, <<"P","r","o","c","e","s","s","e","d">>, <<"d","o","n","e">>, <<" ","Y","e","s"," ">>,
   <<"n","o">>, <<"y","e","s","s">>, <<"0">>, <<"F","A","L","S","E">>}
ScanRows ==
  {[RowToday EXCEPT !.publish = d, !.processed = f] : d \in DateCells, f \in FlagCells}
PlainRows == {RowToday, RowOther}
InitScan ==
  /\ \E rows \in SeqsUpTo(ScanRows \cup PlainRows, MaxRows) :
       /\ Cardinality({i \in 1..Len(rows) : rows[i] \notin PlainRows}) <= 1
       /\ sheet = Grid(CanonicalLayout, CanonicalNames, rows)
  /\ env = GoodEnv
  /\ rss = [doc |-> FeedEmpty, public |-> TRUE]
  /\ InitRest

\* the run up to the end of the scan
NextScan == main_start \/ main_read_sheet
SpecScan == InitScan /\ [][NextScan]_vars

\* header rows for the schema resolution, over one publishable row:
\*  - every order of the six columns under the canonical names;
\*  - every rotation of the canonical order, one role named by any of its
\*    accepted names, by its first name padded with blanks, or by a name that
\*    is not accepted;
\*  - every combination of accepted names, in canonical and in reverse order;
\*  - a seventh column that carries another accepted name of some role.
Perms(S) == {p \in [1..Cardinality(S) -> S] : \A i, j \in DOMAIN p : p[i] = p[j] => i = j}
NamesOf(role) == {Candidates[role][k] : k \in 1..Len(Candidates[role])}
Padded(name) == <<" ">> \o name \o <<" "," ">>
NotAccepted ==
  [publish |-> <<"p","u","b","l","i","s","h"," ","d","a","t","e">>, title |-> <<"T","I","T","L","E">>, desc |-> <<"D","e","s","c">>,
   file |-> <<"F","i","l","e">>, processed |-> <<"D","o","n","e","?">>, image |-> <<"I","m","a","g","e","1","6","x","9">>]
Rotations(layout) ==
  {[i \in 1..Len(layout) |-> layout[((i + k - 1) % Len(layout)) + 1]] : k \in 1..Len(layout)}
ReverseLayout == <<"image", "processed", "file", "desc", "title", "publish">>
InitSchema ==
  /\ \/ \E layout \in Perms(Roles) :
          sheet = Grid(layout, CanonicalNames, <<RowToday>>)
     \/ \E layout \in Rotations(CanonicalLayout), role \in Roles :
          \E name \in NamesOf(role) \cup {Padded(Candidates[role][1]), NotAccepted[role]} :
             sheet = Grid(layout, [CanonicalNames EXCEPT ![role] = name], <<RowToday>>)
     \/ \E layout \in {CanonicalLayout, ReverseLayout} :
          \E p \in NamesOf("publish"), t \in NamesOf("title"), d \in NamesOf("desc"),
             f \in NamesOf("file"), x \in NamesOf("processed"), i \in NamesOf("image") :
             sheet = Grid(layout, Rec(p, t, d, f, x, i), <<RowToday>>)
     \/ \E layout \in {<<"notes">> \o CanonicalLayout, CanonicalLayout \o <<"notes">>} :
          \E role \in Roles : \E name \in NamesOf(role), other \in NamesOf(role) :
             sheet = Grid(layout, [CanonicalNames EXCEPT ![role] = name, !.notes = other],
                          <<RowToday>>)
  /\ env = GoodEnv
  /\ rss = [doc |-> FeedEmpty, public |-> TRUE]
  /\ InitRest

SpecSchema == InitSchema /\ [][NextScan]_vars

\* ------------------------------------------------------------------------
\* Vocabulary of the properties
\* ------------------------------------------------------------------------
\* the current invocation has resolved the columns and scanned the rows
Scanned == col_idx # NoColumns
\* the cell of data row r (0-based index into values) in the column of a role
RoleCell(grid, idx, r, role) == grid[r + 1][idx[role] + 1]
DataRowsOf(grid) == 1..(Len(grid) - 1)
DatedTarget(cell) == parse_publish_date(cell) = TargetDate
MarkedProcessed(cell) == lower(strip(cell)) \in TruthyProcessed
\* data rows dated the target date and not marked processed
Qualifying(grid, idx) ==
  {r \in DataRowsOf(grid) :
     /\ DatedTarget(RoleCell(grid, idx, r, "publish"))
     /\ ~MarkedProcessed(RoleCell(grid, idx, r, "processed"))}
Count(seq, e) == Cardinality({i \in 1..Len(seq) : seq[i] = e})

\* ------------------------------------------------------------------------
\* C1
\* ------------------------------------------------------------------------
\* C1 as stated: whenever the first run committed, the second run selects no
\* row and the two runs together made exactly one feed write and exactly one
\* processed-flag write.
C1_TwoRunsOneItem ==
  (run = 2 /\ past[1].pc = "Committed" /\ pc \in Terminal)
    => (target_row = NoRow /\ feed_writes = 1 /\ flag_writes = 1)

\* C1 amended: a run that follows a committed run never selects the row that
\* run committed; when that row was the only row dated the target date and
\* unprocessed, the second run selects no row and the two runs together made
\* exactly one feed write and exactly one processed-flag write.
C1_SecondRunSkipsCommittedRow ==
  (run >= 2 /\ past[run - 1].pc = "Committed" /\ Scanned)
    => /\ target_row # past[run - 1].target_row
       /\ (run = 2 /\ Qualifying(past[1].sheet, col_idx) = {past[1].target_row})
            => (target_row = NoRow /\ feed_writes = 1 /\ flag_writes = 1)

C1_Witness ==
  /\ run = 2 /\ past[1].pc = "Committed" /\ pc = "NoOp" /\ Scanned
  /\ Qualifying(past[1].sheet, col_idx) = {past[1].target_row}
  /\ feed_writes = 1 /\ flag_writes = 1

\* ------------------------------------------------------------------------
\* C2
\* ------------------------------------------------------------------------
\* C2: a failed run has issued no processed-flag write and left every cell of
\* the schedule as it was, and the run after a failed run that had selected a
\* row selects that same row again.
C2_FailedRunIsRetriable ==
  /\ pc = "Failed" => (sheet = sheet_at_start /\ Count(log, "values.update") = 0)
  /\ (run >= 2 /\ past[run - 1].pc = "Failed" /\ past[run - 1].target_row # NoRow
        /\ Scanned)
       => target_row = past[run - 1].target_row

\* a run that failed after its feed write is followed by a run selecting the same row
C2_Witness ==
  /\ run = 2 /\ past[1].pc = "Failed" /\ past[1].target_row # NoRow
  /\ feed_writes >= 1 /\ flag_writes = 0
  /\ pc = "RowFound" /\ target_row = past[1].target_row /\ sheet = past[1].sheet

\* ------------------------------------------------------------------------
\* C3
\* ------------------------------------------------------------------------
GuidOf(item) == item.children[find(item, "guid")].text
\* the guid values of the feed's items, in document order
FeedGuids(doc) ==
  IF ~HasChild(doc, "channel") THEN <<>>
  ELSE LET channel == doc.children[find(doc, "channel")]
           items == SelectSeq(channel.children, LAMBDA e : e.tag = "item")
       IN [i \in 1..Len(items) |-> GuidOf(items[i])]

\* C3: no two items of the feed document carry the same guid.
C3_GuidsUnique ==
  \A i, j \in 1..Len(FeedGuids(rss.doc)) :
     i # j => FeedGuids(rss.doc)[i] # FeedGuids(rss.doc)[j]

\* ------------------------------------------------------------------------
\* C4
\* ------------------------------------------------------------------------
\* C4: a run selects no row or exactly the lowest-index data row that is dated
\* the target date and not marked processed; it issues at most one flag write,
\* and no row other than the selected one differs from the schedule the run
\* started with.
C4_FirstQualifyingRowOnly ==
  /\ Scanned =>
       IF Qualifying(sheet_at_start, col_idx) = {} THEN target_row = NoRow
       ELSE /\ target_row \in Qualifying(sheet_at_start, col_idx)
            /\ \A q \in Qualifying(sheet_at_start, col_idx) : target_row <= q
  /\ Count(log, "values.update") <= 1
  /\ Len(sheet) = Len(sheet_at_start)
  /\ \A r \in DataRowsOf(sheet) : r # target_row => sheet[r + 1] = sheet_at_start[r + 1]

\* two rows dated the target date, both unprocessed: the earlier one is committed
C4_Witness ==
  /\ pc = "Committed" /\ target_row = 1
  /\ Qualifying(sheet_at_start, col_idx) = {1, 2}
  /\ sheet[3] = sheet_at_start[3]
  /\ sheet[2] # sheet_at_start[2]

\* ------------------------------------------------------------------------
\* C5
\* ------------------------------------------------------------------------
TruthyWords == {<<"y","e","s">>, <<"y">>, <<"t","r","u","e">>, <<"1">>, <<"p","r","o","c","e","s","s","e","d">>, <<"d","o","n","e">>}
\* c is the letter w in either case, or the same character
SameIgnoringCase(c, w) ==
  c = w \/ \E k \in 1..26 : LowerLetters[k] = w /\ UpperLetters[k] = c
\* the cell is one of the truthy words in any letter case, inside blanks
SpelledTruthy(cell) ==
  \E w \in TruthyWords : \E i \in 1..(Len(cell) + 1) :
     /\ i + Len(w) - 1 <= Len(cell)
     /\ \A k \in 1..Len(w) : SameIgnoringCase(cell[i + k - 1], w[k])
     /\ \A k \in 1..Len(cell) : (k < i \/ k > i + Len(w) - 1) => IsSpace(cell[k])

\* C5: a row dated the target date whose processed cell spells a truthy word is
\* never the selected row; one whose processed cell spells anything else is
\* selectable: the scan selects it or a row before it.
C5_TruthySpellingsSkipped ==
  Scanned =>
    \A r \in DataRowsOf(sheet_at_start) :
       DatedTarget(RoleCell(sheet_at_start, col_idx, r, "publish")) =>
         IF SpelledTruthy(RoleCell(sheet_at_start, col_idx, r, "processed"))
         THEN target_row # r
         ELSE target_row # NoRow /\ target_row <= r

\* the first row is marked "Processed" and the scan selected the row after it
C5_Witness ==
  /\ Scanned /\ pc = "RowFound" /\ target_row = 2
  /\ DatedTarget(RoleCell(sheet_at_start, col_idx, 1, "publish"))
  /\ RoleCell(sheet_at_start, col_idx, 1, "processed") = <<"P","r","o","c","e","s","s","e","d">>

\* ------------------------------------------------------------------------
\* C6
\* ------------------------------------------------------------------------
\* the publish-date cell is empty, blank, or not accepted as a date
BadDate(cell) == strip(cell) = <<>> \/ ~parse_publish_date(cell).ok

\* C6: a row whose publish-date cell is empty or does not parse is never the
\* selected row and does not end the scan: a qualifying row after it is still
\* reached, and a scan that selects nothing ends the run as a no-op, not as an
\* error.
C6_BadDatesSkipped ==
  Scanned =>
    /\ \A r \in DataRowsOf(sheet_at_start) :
         BadDate(RoleCell(sheet_at_start, col_idx, r, "publish")) =>
           /\ target_row # r
           /\ \A q \in Qualifying(sheet_at_start, col_idx) :
                q > r => (target_row # NoRow /\ target_row <= q)
    /\ target_row = NoRow => pc = "NoOp"

\* the first row is dated "03/01/2024" and the scan selected the row after it
C6_Witness ==
  /\ Scanned /\ pc = "RowFound" /\ target_row = 2
  /\ RoleCell(sheet_at_start, col_idx, 1, "publish") = <<"0","3","/","0","1","/","2","0","2","4">>

\* ------------------------------------------------------------------------
\* C7
\* ------------------------------------------------------------------------
ChannelChildren(doc) == doc.children[find(doc, "channel")].children
ItemsOf(children) == SelectSeq(children, LAMBDA e : e.tag = "item")
MetadataOf(children) == SelectSeq(children, LAMBDA e : e.tag # "item")
TextOf(element, tag) == element.children[find(element, tag)].text
\* the current invocation has uploaded rss.xml
FeedWritten == Count(log, "upload rss") = 1

\* C7: once a run has written the feed, the channel holds the N items it held
\* when the run began, unchanged and in the same order, preceded by the one new
\* item, and its non-item children are the same elements in the same order.
C7_NewItemFirstRestKept ==
  FeedWritten =>
    LET old == ChannelChildren(rss_at_start.doc)
        new == ChannelChildren(rss.doc)
    IN /\ Len(new) = Len(old) + 1
       /\ Len(ItemsOf(new)) = Len(ItemsOf(old)) + 1
       /\ Tail(ItemsOf(new)) = ItemsOf(old)
       /\ TextOf(Head(ItemsOf(new)), "title") = title
       /\ TextOf(Head(ItemsOf(new)), "pubDate") = str(run)
       /\ MetadataOf(new) = MetadataOf(old)

\* a channel with two items followed by a metadata element received the new item
C7_Witness ==
  /\ FeedWritten
  /\ Len(ItemsOf(ChannelChildren(rss_at_start.doc))) = 2
  /\ Len(ChannelChildren(rss_at_start.doc)) = 3
  /\ ChannelChildren(rss_at_start.doc)[3].tag # "item"
  /\ ChannelChildren(rss.doc)[1].tag = "item"
  /\ Len(ChannelChildren(rss.doc)) = 4

\* ------------------------------------------------------------------------
\* C8
\* ------------------------------------------------------------------------
\* C8: a committed run has issued exactly one values.update, and the grid
\* differs from the grid the run started with in exactly one cell, which holds
\* "yes": the cell of the selected row in the column whose trimmed header is a
\* processed-flag name and which the scan read as the processed cell.
C8_OnlyProcessedCellWritten ==
  pc = "Committed" =>
    /\ Count(log, "values.update") = 1
    /\ Len(sheet) = Len(sheet_at_start)
    /\ \E c \in 1..Len(sheet_at_start[1]) :
         /\ c = col_idx.processed + 1
         /\ \E k \in 1..Len(ProcessedCandidates) :
              strip(sheet_at_start[1][c]) = ProcessedCandidates[k]
         /\ sheet[target_row + 1][c] = <<"y","e","s">>
         /\ \A r \in 1..Len(sheet) :
              /\ Len(sheet[r]) = Len(sheet_at_start[r])
              /\ \A d \in 1..Len(sheet[r]) :
                   (r # target_row + 1 \/ d # c) => sheet[r][d] = sheet_at_start[r][d]

\* the second of two rows is committed in a sheet whose processed column is E
C8_Witness ==
  /\ pc = "Committed" /\ target_row = 2 /\ col_idx.processed = 4
  /\ sheet_at_start[3][5] = <<>>
  /\ sheet[3][5] = <<"y","e","s">>

\* ------------------------------------------------------------------------
\* C9
\* ------------------------------------------------------------------------
HeaderRow == IF sheet_at_start = <<>> THEN <<>> ELSE sheet_at_start[1]
\* some header cell, trimmed, is the k-th accepted name of the role
Names(role, k) == \E c \in 1..Len(HeaderRow) : strip(HeaderRow[c]) = Candidates[role][k]
Resolvable(role) == \E k \in 1..Len(Candidates[role]) : Names(role, k)
\* the columns whose trimmed header is an accepted name of the role
ColumnsFor(role) ==
  {c \in 1..Len(HeaderRow) :
     \E k \in 1..Len(Candidates[role]) : strip(HeaderRow[c]) = Candidates[role][k]}
\* the sheet has been read by the current invocation
SheetRead == Count(log, "values.get") = 1

\* C9: after the sheet is read, the columns are resolved exactly when every
\* role has an accepted name among the trimmed header cells, and otherwise the
\* run has failed without selecting a row; a resolved role points at a column
\* whose trimmed header is the earliest accepted name of the role that occurs
\* in the header; and when each role is named by one column only, every role
\* points at the column that holds its data, whatever the column order and
\* whichever accepted names are used.
C9_RolesResolveToTheirColumns ==
  /\ (SheetRead /\ HeaderRow # <<>>) =>
       /\ Scanned <=> \A role \in Roles : Resolvable(role)
       /\ ~Scanned => (pc = "Failed" /\ target_row = NoRow /\ row_data = <<>>)
  /\ Scanned =>
       \A role \in Roles :
          /\ \E k \in 1..Len(Candidates[role]) :
               /\ strip(HeaderRow[col_idx[role] + 1]) = Candidates[role][k]
               /\ \A j \in 1..(k - 1) : ~Names(role, j)
          /\ (Cardinality(ColumnsFor(role)) = 1 /\ Len(sheet_at_start) = 2)
               => sheet_at_start[2][col_idx[role] + 1] = RowToday[role]

\* reversed column order with the last accepted names of each role
C9_Witness ==
  /\ Scanned /\ pc = "RowFound"
  /\ HeaderRow = <<<<"I","m","a","g","e","1","6","x","9","F","i","l","e","I","d","F","i","e","l","d","I","D">>, <<"s","t","a","t","u","s">>, <<"f","i","l","e","_","n","a","m","e">>,
                   <<"d","e","s","c","r","i","p","t","i","o","n">>, <<"t","i","t","l","e">>, <<"p","u","b","l","i","s","h","_","d","a","t","e">>>>
  /\ col_idx = [publish |-> 5, title |-> 4, desc |-> 3, file |-> 2,
                processed |-> 1, image |-> 0]

\* ------------------------------------------------------------------------
\* C10
\* ------------------------------------------------------------------------
\* C10: when the encoder has exited non-zero the run is failed, the encoder was
\* invoked once, and the run has written nothing to the bucket: no episode
\* object and no feed document.
C10_RenderFailureWritesNothing ==
  Count(log, "ffmpeg 1") > 0 =>
    /\ pc = "Failed"
    /\ Count(log, "ffmpeg 1") + Count(log, "ffmpeg 0") = 1
    /\ bucket = bucket_at_start
    /\ rss = rss_at_start
    /\ \A i \in 1..Len(log) : log[i] \notin {"upload audio", "upload video", "upload rss"}

C10_Witness ==
  /\ pc = "Failed" /\ log # <<>> /\ log[Len(log)] = "ffmpeg 1"
  /\ local.audio # <<>> /\ local.image # <<>>

\* ------------------------------------------------------------------------
\* C11
\* ------------------------------------------------------------------------
\* the run has changed nothing outside its own process
NothingWritten ==
  /\ uploads = <<>>
  /\ bucket = bucket_at_start
  /\ rss = rss_at_start
  /\ sheet = sheet_at_start

\* C11: when no data row is dated the target date and unprocessed, the run ends
\* as a no-op without error: it has read the sheet and made no other call, so
\* nothing was downloaded, encoded, uploaded or written.
C11_NothingScheduledIsNoOp ==
  (Scanned /\ Qualifying(sheet_at_start, col_idx) = {})
    => /\ pc = "NoOp"
       /\ target_row = NoRow
       /\ log = <<"values.get">>
       /\ NothingWritten

\* one row of the date already processed, one row of another date
C11_Witness ==
  /\ Scanned /\ pc = "NoOp" /\ Len(sheet_at_start) = 3
  /\ DatedTarget(RoleCell(sheet_at_start, col_idx, 1, "publish"))
  /\ RoleCell(sheet_at_start, col_idx, 1, "processed") = <<"y","e","s">>
  /\ ~DatedTarget(RoleCell(sheet_at_start, col_idx, 2, "publish"))

\* ------------------------------------------------------------------------
\* C12
\* ------------------------------------------------------------------------
Blank(cell) == \A i \in 1..Len(cell) : IsSpace(cell[i])
SelectedCell(role) == RoleCell(sheet_at_start, col_idx, target_row, role)
SelectedRowIncomplete ==
  Blank(SelectedCell("title")) \/ Blank(SelectedCell("file")) \/ Blank(SelectedCell("image"))

\* C12: when the selected row has an empty title, file name or image reference
\* the run is failed having only read the sheet: nothing was downloaded,
\* encoded, uploaded or written.
C12_IncompleteRowFailsFirst ==
  (Scanned /\ target_row # NoRow /\ SelectedRowIncomplete)
    => pc = "Failed" /\ log = <<"values.get">> /\ NothingWritten

\* the selected row has a title and a file name but no image reference
C12_Witness ==
  /\ Scanned /\ target_row # NoRow /\ pc = "Failed"
  /\ ~Blank(SelectedCell("title")) /\ ~Blank(SelectedCell("file"))
  /\ SelectedCell("image") = <<>>

\* ------------------------------------------------------------------------
\* C13
\* ------------------------------------------------------------------------
\* the part of a file name before its last dot; the whole name when it has none
LastDot(name) ==
  IF \A i \in 1..Len(name) : name[i] # "." THEN 0
  ELSE CHOOSE i \in 1..Len(name) :
         name[i] = "." /\ \A j \in (i + 1)..Len(name) : name[j] # "."
StemOf(name) == IF LastDot(name) = 0 THEN name ELSE SubSeq(name, 1, LastDot(name) - 1)
DayFolder == <<"e","p","i","s","o","d","e","s","/","2","0","2","4","-","0","3","-","0","1","/">>
Attr(element, key) ==
  element.attrib[CHOOSE i \in 1..Len(element.attrib) : element.attrib[i][1] = key][2]
FirstItem(doc) == ItemsOf(ChannelChildren(doc))[1]
\* the Drive file of that name: its id and its size in bytes
DriveFileOf(name) ==
  DriveFolder[CHOOSE i \in 1..Len(DriveFolder) : DriveFolder[i].name = name]

\* C13: after a successful run for the selected row of date D and file name F,
\* exactly two artifact uploads were made, first the audio to episodes/D/F and
\* then the video to episodes/D/<stem of F>.mp4; the first item of the feed has
\* guid dddevotion-D-F and an enclosure whose url is the public URL of the audio
\* object and whose length is the byte size of the downloaded audio; and the
\* row's processed cell reads "yes".
C13_SuccessfulRunPublishesRow ==
  pc = "Committed" =>
    LET F == strip(SelectedCell("file")) IN
    /\ Len(uploads) = 2
    /\ uploads[1] = [name |-> DayFolder \o F, content_type |-> "audio/x-m4a",
                     data |-> <<DriveFileOf(F).id>>]
    /\ uploads[2].name = DayFolder \o StemOf(F) \o <<".","m","p","4">>
    /\ uploads[2].content_type = "video/mp4"
    /\ GuidOf(FirstItem(rss.doc)) = <<"d","d","d","e","v","o","t","i","o","n","-","2","0","2","4","-","0","3","-","0","1","-">> \o F
    /\ Attr(FirstItem(rss.doc).children[find(FirstItem(rss.doc), "enclosure")], "url")
         = public_url(env.BUCKET_NAME, uploads[1].name)
    /\ Attr(FirstItem(rss.doc).children[find(FirstItem(rss.doc), "enclosure")], "length")
         = str(DriveFileOf(F).size)
    /\ RoleCell(sheet, col_idx, target_row, "processed") = <<"y","e","s">>

\* a committed run for a file name with two dots, in a feed that had items
C13_Witness ==
  /\ pc = "Committed"
  /\ strip(SelectedCell("file")) = <<"d","a","y",".","1",".","m","4","a">>
  /\ Len(ItemsOf(ChannelChildren(rss.doc))) = 3
  /\ uploads[2].name = <<"e","p","i","s","o","d","e","s","/","2","0","2","4","-","0","3","-","0","1","/","d","a","y",".","1",".","m","p","4">>

\* ------------------------------------------------------------------------
\* C19
\* ------------------------------------------------------------------------
\* C19: whatever the extension of the selected row's file name, the audio and
\* the video are uploaded to distinct paths, so that after the video upload the
\* object at the audio path (the one the feed enclosure points to) is still
\* the audio.
C19_BlobPathsDistinct ==
  Len(uploads) = 2 =>
    /\ uploads[1].name # uploads[2].name
    /\ \E b \in bucket :
         /\ b.name = uploads[1].name
         /\ b.content_type = "audio/x-m4a"
         /\ b.data = uploads[1].data

\* ------------------------------------------------------------------------
\* C14
\* ------------------------------------------------------------------------
\* neither variable of the pair provides a value
Missing(primary, fallback) == falsy(environ[primary]) /\ falsy(environ[fallback])
FailedBeforeAnyCall ==
  /\ pc = "Failed"
  /\ log = <<>>
  /\ NothingWritten
  /\ local = [audio |-> <<>>, image |-> <<>>, video |-> <<>>]
Begun == pc # "Idle"

\* C14 as stated: when the folder id, the spreadsheet id or the bucket name is
\* missing from the environment, the run is failed before any external call.
C14_MissingValueFailsFirst ==
  (Begun /\ (\/ Missing("DAILY_FOLDER_ID", "EPISODES_FOLDER_ID")
             \/ Missing("SHEET_ID", "SPREADSHEET_ID")
             \/ Missing("RSS_BUCKET", "BUCKET_NAME")))
    => FailedBeforeAnyCall

\* C14, amended: when the folder id or the spreadsheet id is missing (unset or
\* empty in both of its variables), or the bucket name is empty (BUCKET_NAME
\* set to the empty string while RSS_BUCKET is unset or empty), the run is
\* failed before any external call: nothing is read, downloaded, uploaded or
\* written. An unset bucket name is not missing: the default
\* deep-dive-podcast-assets is used.
C14_MissingRequiredValueFailsFirst ==
  /\ (Begun /\ (\/ Missing("DAILY_FOLDER_ID", "EPISODES_FOLDER_ID")
                \/ Missing("SHEET_ID", "SPREADSHEET_ID")
                \/ (falsy(environ.RSS_BUCKET) /\ environ.BUCKET_NAME = <<>>)))
       => FailedBeforeAnyCall
  /\ (falsy(environ.RSS_BUCKET) /\ environ.BUCKET_NAME = Unset)
       => env.BUCKET_NAME = DefaultBucket

\* the run has failed at once because BUCKET_NAME is set to the empty string
C14_Witness ==
  /\ FailedBeforeAnyCall /\ run = 1
  /\ environ.RSS_BUCKET = Unset /\ environ.BUCKET_NAME = <<>>
  /\ ~Missing("DAILY_FOLDER_ID", "EPISODES_FOLDER_ID")
  /\ ~Missing("SHEET_ID", "SPREADSHEET_ID")

\* ------------------------------------------------------------------------
\* C15
\* ------------------------------------------------------------------------
\* the stored objects without their visibility
Stored(objects) ==
  {[name |-> b.name, content_type |-> b.content_type, data |-> b.data] : b \in objects}
\* what the bucket holds once the uploads of the run are stored, in their order
StoredAfter(objects, ups) ==
  LET kept == {b \in Stored(objects) : \A i \in 1..Len(ups) : b.name # ups[i].name}
      last == {ups[i] : i \in {j \in 1..Len(ups) :
                                  \A k \in (j + 1)..Len(ups) : ups[k].name # ups[j].name}}
  IN kept \cup last
\* the objects of the run that are not publicly readable
Private == {b \in bucket : ~b.public /\ \E i \in 1..Len(uploads) : b.name = uploads[i].name}

\* C15: a failure to mark an object public is not fatal. A step that stores
\* the audio or the video object leads to the next stage whether marking it
\* public succeeded or not, and so does the step that writes the feed; and a
\* committed run ends with the same stored objects, the same feed document
\* and the same processed flag whatever the visibility of the three objects.
C15_MarkPublicFailureNonFatal ==
  /\ [][/\ Len(uploads') = Len(uploads) + 1 => pc' \in {"AudioUploaded", "Published"}
        /\ rss' # rss => pc' = "FeedUpdated"]_vars
  /\ [](pc = "Committed" =>
          /\ Stored(bucket) = StoredAfter(bucket_at_start, uploads)
          /\ Len(uploads) = 2
          /\ rss.doc = updated_feed(rss_at_start.doc)
          /\ RoleCell(sheet, col_idx, target_row, "processed") = <<"y","e","s">>)

\* a committed run none of whose three objects could be marked public
C15_Witness ==
  /\ pc = "Committed"
  /\ Cardinality(Private) = 2
  /\ ~rss.public

\* ------------------------------------------------------------------------
\* C16
\* ------------------------------------------------------------------------
LetterValue(c) == CHOOSE k \in 1..26 : UpperLetters[k] = c
RECURSIVE Bijective26(_)
\* the number a column name stands for, A = 1 ... Z = 26, AA = 27 ...
Bijective26(name) ==
  IF name = <<>> THEN 0
  ELSE Bijective26(SubSeq(name, 1, Len(name) - 1)) * 26 + LetterValue(name[Len(name)])
Returned(i, name) == a1.at = "return" /\ a1.input = i => a1.letters = name

\* C16: col_to_a1 gives for the zero-based index n the column name that
\* stands for n + 1 in bijective base 26 (0 -> A, 25 -> Z, 26 -> AA, 27 -> AB,
\* 701 -> ZZ, 702 -> AAA); the name is made of the letters A-Z only, no other
\* index has the same name, n never goes below zero and decreases with every
\* pass that does not return, and every call returns.
C16_ColumnNames ==
  /\ [](/\ a1.n >= 0
        /\ \A i \in 1..Len(a1.letters) : \E k \in 1..26 : UpperLetters[k] = a1.letters[i]
        /\ a1.at = "return" =>
             /\ a1.letters # <<>>
             /\ Bijective26(a1.letters) = a1.input + 1
             /\ a1.letters = col_to_a1(a1.input)
             /\ \A m \in 0..MaxColumn : m # a1.input => col_to_a1(m) # a1.letters
        /\ Returned(0, <<"A">>) /\ Returned(25, <<"Z">>) /\ Returned(26, <<"A","A">>)
        /\ Returned(27, <<"A","B">>) /\ Returned(701, <<"Z","Z">>) /\ Returned(702, <<"A","A","A">>))
  /\ [][a1'.at = "loop" => a1'.n < a1.n]_vars
  /\ <>(a1.at = "return")

\* the first three-letter column name has been returned
C16_Witness == a1.at = "return" /\ a1.input = 702 /\ a1.letters = <<"A","A","A">>

\* ------------------------------------------------------------------------
\* C17
\* ------------------------------------------------------------------------
IsPrefix(s, t) == Len(s) <= Len(t) /\ s = SubSeq(t, 1, Len(s))
\* the external calls of a run that succeeds, in their order
EffectsInOrder ==
  <<"values.get", "files.list", "get_media audio", "get_media image", "ffmpeg 0",
    "upload audio", "upload video", "download rss", "upload rss", "values.update">>
\* the number of calls made when a stage is reached
CallsAt(stage) ==
  CASE stage = "Idle" -> 0 [] stage = "Started" -> 0
    [] stage = "RowFound" -> 1 [] stage = "NoOp" -> 1
    [] stage = "ArtifactsFetched" -> 4 [] stage = "Rendered" -> 5
    [] stage = "AudioUploaded" -> 6 [] stage = "Published" -> 7
    [] stage = "FeedUpdated" -> 9 [] stage = "Committed" -> 10

\* C17: the external effects of a run occur in the order row selection, audio
\* and image download, render, audio upload, video upload, feed write,
\* processed-flag write, each only after every earlier one has succeeded; the
\* processed-flag write is the last effect and is made by committed runs only;
\* a terminal state is left only by the next invocation, and every run that is
\* started reaches one of Committed, NoOp and Failed.
C17_EffectsInFixedOrder ==
  /\ [](/\ \/ IsPrefix(log, EffectsInOrder)
           \/ log = SubSeq(EffectsInOrder, 1, 4) \o <<"ffmpeg 1">>
        /\ pc # "Failed" => log = SubSeq(EffectsInOrder, 1, CallsAt(pc))
        /\ Count(log, "values.update") = 1 <=> pc = "Committed"
        /\ Len(uploads) = Count(log, "upload audio") + Count(log, "upload video")
        /\ rss # rss_at_start => Count(log, "upload rss") = 1
        /\ sheet # sheet_at_start => Count(log, "values.update") = 1)
  /\ [][(pc \in Terminal) => (pc' = "Idle" /\ run' = run + 1)]_vars
  /\ (pc = "Idle" ~> pc \in Terminal)

\* a run that has made every call, the flag write last
C17_Witness == pc = "Committed" /\ log = EffectsInOrder /\ run = 2

\* ------------------------------------------------------------------------
\* C18
\* ------------------------------------------------------------------------
\* C18: when the stored feed document has no channel element, the run that
\* reads it is failed; the feed object is left as it was, no feed write is
\* issued and the processed flag is not written.
C18_FeedWithoutChannelFailsRun ==
  ~HasChild(rss_at_start.doc, "channel") =>
    /\ rss = rss_at_start
    /\ feed_writes = 0
    /\ Count(log, "upload rss") = 0
    /\ Count(log, "values.update") = 0
    /\ sheet = sheet_at_start
    /\ pc \notin {"FeedUpdated", "Committed"}
    /\ Count(log, "download rss") = 1 => pc = "Failed"

\* both artifacts were uploaded, then the feed without channel was read
C18_Witness ==
  /\ ~HasChild(rss_at_start.doc, "channel")
  /\ pc = "Failed"
  /\ log = SubSeq(EffectsInOrder, 1, 8)
  /\ Len(uploads) = 2

\* ------------------------------------------------------------------------
\* C20
\* ------------------------------------------------------------------------
\* the last_processed_row a run would load
Persisted(s) == load_state(s.state).last_processed_row
DataRows(s) == IF s.rows = <<>> THEN 0 ELSE Len(s.rows) - 1
IsRun == sf'.clock = sf.clock + 1

\* C20: over any sequence of runs of process_devotions against a sheet whose
\* rows are added and removed between the runs, the persisted
\* last_processed_row never decreases, and a run that finds no row beyond
\* last_processed_row writes neither the feed file nor the state file.
C20_LastProcessedRowMonotone ==
  [][/\ Persisted(sf') >= Persisted(sf)
     /\ (IsRun /\ DataRows(sf) <= Persisted(sf)) =>
           /\ sf'.feed = sf.feed /\ sf'.feed_writes = sf.feed_writes
           /\ sf'.state = sf.state /\ sf'.state_writes = sf.state_writes
           /\ sf'.pushes = sf.pushes]_vars

\* two rows were processed, one was removed, and the run that followed found
\* the remaining row and wrote nothing
C20_Witness ==
  /\ Persisted(sf) = 2 /\ DataRows(sf) = 1 /\ sf.read = 1
  /\ sf.clock = 2 /\ sf.state_writes = 1 /\ sf.feed_writes = 1
  /\ load_state(sf.state).last_updated = 0

====
